---- MODULE Spec2Model ----
(***************************************************************************)
(* A model of qutip/dims_utils.py: the nested-list utilities (flatten,     *)
(* enumerate_flat, unflatten, deep_remove, deep_map), the dims classifier  *)
(* type_from_dims, and the tensor permutation / shape / index projection   *)
(* built on them.                                                          *)
(*                                                                         *)
(* Python values are tagged records:                                       *)
(*   PyInt(n)    an int            PyList(s)   a list of values                *)
(*   PyTuple(s)  a tuple           PyStr(s)    a str                           *)
(*   Raise(e)  the call ended by raising exception e (no value returned)   *)
(* The caller's argument lives in a heap of list objects (heap, root), so  *)
(* that the in-place statements of the code (list.remove, perm[i] = ...)   *)
(* act on objects and aliasing is visible.                                 *)
(***************************************************************************)
EXTENDS Integers, Sequences, FiniteSets, TLC

VARIABLES heap, root, arg, call, result

vars == <<heap, root, arg, call, result>>

(***************************************************************************)
(* Bounds of the model.                                                    *)
(***************************************************************************)
\* the scalars of an enumerated nested list are 1..MaxScalar
MaxScalar == 2
\* a branch of an enumerated dims holds at most MaxLeaves integers
MaxLeaves == 2
\* an enumerated nested list has at most MaxNodes nodes (lists and scalars)
MaxNodes == 5

(***************************************************************************)
(* Python values.                                                          *)
(***************************************************************************)
PyInt(n) == [k |-> "int", v |-> n]

PyList(s) == [k |-> "list", items |-> s]

PyTuple(s) == [k |-> "tuple", items |-> s]

PyStr(s) == [k |-> "str", s |-> s]

Raise(e) == [k |-> "raise", s |-> e]

None == [k |-> "None"]

IsList(t) == t.k = "list"

IsInt(t) == t.k = "int"

IsRaise(t) == t.k = "raise"

\* the first exception raised while the elements of a sequence are evaluated
\* left to right, or None when none raised
RECURSIVE FirstRaise(_)
FirstRaise(s) ==
    IF s = <<>> THEN None
    ELSE IF IsRaise(Head(s)) THEN Head(s)
    ELSE FirstRaise(Tail(s))

\* the Python list [a, b, ...] of ints from a sequence of numbers
IntList(ns) == PyList([i \in 1..Len(ns) |-> PyInt(ns[i])])

(***************************************************************************)
(* flatten                                                                 *)
(***************************************************************************)
RECURSIVE SumLists(_)
\* sum(lists, []): list concatenation, left to right
SumLists(ls) ==
    IF ls = <<>> THEN <<>>
    ELSE Head(ls).items \o SumLists(Tail(ls))

RECURSIVE flatten(_)
flatten(l) ==
    IF ~IsList(l) THEN PyList(<<l>>)
    ELSE PyList(SumLists([i \in 1..Len(l.items) |-> flatten(l.items[i])]))

(***************************************************************************)
(* enumerate_flat                                                          *)
(***************************************************************************)
RECURSIVE enumerate_flat_rec(_, _)
RECURSIVE enumerate_flat_loop(_, _, _)
\* the for loop of _enumerate_flat over the remaining elements, acc so far
enumerate_flat_loop(elems, acc, idx) ==
    IF elems = <<>> THEN [labels |-> PyList(acc), idx |-> idx]
    ELSE LET r == enumerate_flat_rec(Head(elems), idx)
         IN  enumerate_flat_loop(Tail(elems), Append(acc, r.labels), r.idx)

\* a scalar labelled without the increment
ScalarLabelNoIncrement(idx) == [labels |-> PyInt(idx), idx |-> idx]

\* a scalar: return idx, idx + 1
ScalarLabel(idx) == [labels |-> PyInt(idx), idx |-> idx + 1]

\* _enumerate_flat(l, idx): the pair (labels, next idx)
enumerate_flat_rec(l, idx) ==
    IF ~IsList(l) THEN ScalarLabel(idx)
    ELSE enumerate_flat_loop(l.items, <<>>, idx)

\* labels counted from 1
enumerate_flat_from_one(l) == enumerate_flat_rec(l, 1).labels

enumerate_flat(l) == enumerate_flat_rec(l, 0).labels

(***************************************************************************)
(* getitem on a list or tuple: Python indexing, negative indices count     *)
(* from the end, anything else raises IndexError                           *)
(***************************************************************************)
\* indexing that rejects every negative index
getitem_no_wrap(seq, i) ==
    IF 0 <= i /\ i < Len(seq.items) THEN seq.items[i + 1] ELSE Raise("IndexError")

getitem(seq, i) ==
    LET n == Len(seq.items)
    IN  IF 0 <= i /\ i < n THEN seq.items[i + 1]
        ELSE IF -n <= i /\ i < 0 THEN seq.items[n + i + 1]
        ELSE Raise("IndexError")

(***************************************************************************)
(* unflatten                                                               *)
(***************************************************************************)
RECURSIVE unflatten(_, _)
unflatten(l, idxs) ==
    IF ~(idxs.k \in {"list", "tuple"}) THEN Raise("TypeError")  \* for idx in <int>
    ELSE LET acc == [i \in 1..Len(idxs.items) |->
                        IF IsList(idxs.items[i]) THEN unflatten(l, idxs.items[i])
                        ELSE getitem(l, idxs.items[i].v)]
         IN  IF FirstRaise(acc) # None THEN FirstRaise(acc) ELSE PyList(acc)

(***************************************************************************)
(* deep_map                                                                *)
(***************************************************************************)
\* partial(getitem, seq) as a function of the index
partial_getitem(seq, dom) == [i \in dom |-> getitem(seq, i)]

RECURSIVE deep_map(_, _)
\* over = (tuple, list)
deep_map(fn, collection) ==
    IF collection.k \in {"tuple", "list"}
    THEN LET els == [i \in 1..Len(collection.items) |-> deep_map(fn, collection.items[i])]
         IN  IF FirstRaise(els) # None THEN FirstRaise(els)
             ELSE [k |-> collection.k, items |-> els]
    ELSE fn[collection.v]

(***************************************************************************)
(* type_from_dims                                                          *)
(***************************************************************************)
RECURSIVE SeqProd(_)
SeqProd(s) == IF s = <<>> THEN 1 ELSE Head(s).v * SeqProd(Tail(s))

\* np.prod of a list of ints or of a rectangular list of lists of ints
np_prod(b) == SeqProd(flatten(b).items)

\* The six tests of the if/elif chain, on dims[0] = d0 and dims[1] = d1.

\* the bra test without its look at the column
bra_test_any_column(d0, d1) == np_prod(d0) = 1

bra_test(d0, d1) == np_prod(d0) = 1 /\ IsList(d1) /\ IsInt(d1.items[1])

ket_test(d0, d1) == np_prod(d1) = 1 /\ IsList(d0) /\ IsInt(d0.items[1])

operator_bra_test(d0, d1) == np_prod(d0) = 1 /\ IsList(d1) /\ IsList(d1.items[1])

operator_ket_test(d0, d1) == np_prod(d1) = 1 /\ IsList(d0) /\ IsList(d0.items[1])

\* the oper test with squareness always enforced
oper_test_square(d0, d1, enforce_square) == IsList(d0) /\ IsInt(d0.items[1]) /\ d0 = d1

oper_test(d0, d1, enforce_square) ==
    IsList(d0) /\ IsInt(d0.items[1]) /\ (d0 = d1 \/ ~enforce_square)

super_test(d0, d1, enforce_square) ==
    /\ IsList(d0)
    /\ IsList(d0.items[1])
    /\ ((d0 = d1 /\ d0.items[1] = d1.items[1]) \/ ~enforce_square)

type_from_dims(dims, enforce_square) ==
    LET d0 == dims.items[1]
        d1 == dims.items[2]
    IN  IF bra_test(d0, d1) THEN "bra"
        ELSE IF ket_test(d0, d1) THEN "ket"
        ELSE IF operator_bra_test(d0, d1) THEN "operator-bra"
        ELSE IF operator_ket_test(d0, d1) THEN "operator-ket"
        ELSE IF oper_test(d0, d1, enforce_square) THEN "oper"
        ELSE IF super_test(d0, d1, enforce_square) THEN "super"
        ELSE "other"

(***************************************************************************)
(* The heap: a sequence of list objects, object a at heap[a]. A cell of a  *)
(* list is an int or a reference to a list object.                         *)
(***************************************************************************)
IntCell(n) == [ref |-> FALSE, v |-> n]

RefCell(a) == [ref |-> TRUE, v |-> a]

RECURSIVE Value(_, _)
\* the Python value a cell denotes in heap h
Value(h, c) ==
    IF c.ref THEN PyList([i \in 1..Len(h[c.v]) |-> Value(h, h[c.v][i])])
    ELSE PyInt(c.v)

\* a new list object holding cells: the heap after, and a reference to it
NewList(h, cells) == [h |-> Append(h, cells), c |-> RefCell(Len(h) + 1)]

RECURSIVE Store(_, _)
RECURSIVE StoreAll(_, _)
\* build value t out of fresh list objects
Store(h, t) ==
    IF IsInt(t) THEN [h |-> h, c |-> IntCell(t.v)]
    ELSE LET st == StoreAll(h, t.items) IN NewList(st.h, st.cs)

StoreAll(h, ts) ==
    IF ts = <<>> THEN [h |-> h, cs |-> <<>>]
    ELSE LET a == Store(h, Head(ts))
             b == StoreAll(a.h, Tail(ts))
         IN  [h |-> b.h, cs |-> <<a.c>> \o b.cs]

(***************************************************************************)
(* deep_remove                                                             *)
(***************************************************************************)
\* no copy: l keeps naming the caller's object
NoCopy(h, c) == [h |-> h, c |-> c]

\* l[:] with the name l rebound to the copy
ShallowCopy(h, c) == NewList(h, h[c.v])

\* to_remove in l: == of an int with a list is False
Contains(h, c, x) == \E i \in 1..Len(h[c.v]) : h[c.v][i] = IntCell(x)

\* l.remove(x): the first element equal to x leaves the object l names
ListRemove(h, c, x) ==
    LET cells == h[c.v]
        i == CHOOSE j \in 1..Len(cells) :
                 /\ cells[j] = IntCell(x)
                 /\ \A m \in 1..(j - 1) : cells[m] # IntCell(x)
    IN  [h EXCEPT ![c.v] = SubSeq(cells, 1, i - 1) \o SubSeq(cells, i + 1, Len(cells))]

RECURSIVE deep_remove(_, _, _)
RECURSIVE deep_remove_loop(_, _, _)
RECURSIVE deep_remove_map(_, _, _)
\* list(map(lambda elem: deep_remove(elem, to_remove), l)), elements left to right
deep_remove_map(h, cells, to_remove) ==
    IF cells = <<>> THEN [h |-> h, cs |-> <<>>]
    ELSE LET a == deep_remove(h, Head(cells), <<to_remove>>)
             b == deep_remove_map(a.h, Tail(cells), to_remove)
         IN  [h |-> b.h, cs |-> <<a.c>> \o b.cs]

\* for to_remove in what: ... with l naming the object at c
deep_remove_loop(h, c, what) ==
    IF what = <<>> THEN [h |-> h, c |-> c]
    ELSE IF Contains(h, c, Head(what))
         THEN deep_remove_loop(ListRemove(h, c, Head(what)), c, Tail(what))
         ELSE LET m == deep_remove_map(h, h[c.v], Head(what))
                  n == NewList(m.h, m.cs)
              IN  deep_remove_loop(n.h, n.c, Tail(what))

deep_remove(h, c, what) ==
    IF c.ref
    THEN LET cp == ShallowCopy(h, c) IN deep_remove_loop(cp.h, cp.c, what)
    ELSE [h |-> h, c |-> c]

(***************************************************************************)
(* dims_to_tensor_perm, dims_to_tensor_shape, dims_idxs_to_tensor_idxs     *)
(***************************************************************************)
\* the elements left in their order
NotReversed(s) == s

RECURSIVE Reverse(_)
Reverse(s) == IF s = <<>> THEN <<>> ELSE Append(Reverse(Tail(s)), Head(s))

\* perm[i] = list(reversed(perm[1 - i])): the other branch taken as the source
ReverseBranchOfOther(h, perm, i) ==
    LET n == NewList(h, Reverse(h[h[perm.v][(1 - i) + 1].v]))
    IN  [n.h EXCEPT ![perm.v][i + 1] = n.c]

\* perm[i] = list(reversed(perm[i])) on the list object perm (i from 0)
ReverseBranch(h, perm, i) ==
    LET n == NewList(h, Reverse(h[h[perm.v][i + 1].v]))
    IN  [n.h EXCEPT ![perm.v][i + 1] = n.c]

\* the heap after the call and the value returned (or the exception raised)
dims_to_tensor_perm(h, dims) ==
    LET dims_type == type_from_dims(Value(h, dims), FALSE)
        perm == Store(h, enumerate_flat(Value(h, dims)))
        h1 == IF dims_type \in {"operator-ket", "super"}
              THEN ReverseBranch(perm.h, perm.c, 1) ELSE perm.h
        h2 == IF dims_type \in {"operator-bra", "super"}
              THEN ReverseBranch(h1, perm.c, 0) ELSE h1
    IN  IF dims_type \in {"oper", "ket", "bra"}
        THEN [h |-> perm.h, r |-> flatten(Value(perm.h, perm.c))]
        ELSE IF dims_type = "other"
        THEN [h |-> perm.h, r |-> Raise("NotImplementedError")]
        ELSE [h |-> h2, r |-> flatten(Value(h2, perm.c))]

\* tuple(map(partial(getitem, dims), perm)) with dims = flatten(dims)
dims_to_tensor_shape(h, dims) ==
    LET p == dims_to_tensor_perm(h, dims)
        flat == flatten(Value(p.h, dims))
    IN  [h |-> p.h,
         r |-> IF IsRaise(p.r) THEN p.r
               ELSE PyTuple([i \in 1..Len(p.r.items) |-> getitem(flat, p.r.items[i].v)])]

\* the ints an index structure holds
RECURSIVE IntsOf(_)
IntsOf(t) ==
    IF IsInt(t) THEN {t.v}
    ELSE UNION {IntsOf(t.items[i]) : i \in 1..Len(t.items)}

dims_idxs_to_tensor_idxs(h, dims, indices) ==
    LET p == dims_to_tensor_perm(h, dims)
    IN  [h |-> p.h,
         r |-> IF IsRaise(p.r) THEN p.r
               ELSE deep_map(partial_getitem(p.r, IntsOf(indices)), indices)]

(***************************************************************************)
(* Inputs.                                                                 *)
(***************************************************************************)
\* the scalars of the enumerated nested lists
Scalars == 1..MaxScalar

\* the dimensions of the enumerated dims: a trivial factor and a qubit; the
\* code looks at a dimension only through np.prod(...) == 1 and ==
DimValues == {1, 2}

RECURSIVE TreesOfSize(_)
RECURSIVE Forests(_)
\* the nested lists of scalars with exactly n nodes; a bare scalar is one node
TreesOfSize(n) ==
    (IF n = 1 THEN {PyInt(v) : v \in Scalars} ELSE {})
        \cup {PyList(f) : f \in Forests(n - 1)}

\* the sequences of nested lists with m nodes in all
Forests(m) ==
    IF m = 0 THEN {<<>>}
    ELSE UNION {{<<t>> \o f : t \in TreesOfSize(j), f \in Forests(m - j)} : j \in 1..m}

Trees == UNION {TreesOfSize(n) : n \in 1..MaxNodes}

\* a flat branch: 1..MaxLeaves positive integers
FlatBranches ==
    {IntList(s) : s \in UNION {[1..n -> DimValues] : n \in 1..MaxLeaves}}

\* a nested branch: c lists of len integers each, c * len <= MaxLeaves
NestedBranches ==
    UNION {{PyList([i \in 1..x[1] |-> IntList(m[i])]) :
                m \in [1..x[1] -> [1..x[2] -> DimValues]]} :
           x \in {y \in (1..MaxLeaves) \X (1..MaxLeaves) : y[1] * y[2] <= MaxLeaves}}

Branches == FlatBranches \cup NestedBranches

DimsSet == {PyList(<<r, c>>) : r \in Branches, c \in Branches}

\* the dims the documentation and the specification name
OperDims == PyList(<<IntList(<<2, 3>>), IntList(<<2, 3>>)>>)

KetDims == PyList(<<IntList(<<4>>), IntList(<<1>>)>>)

OperBranch == PyList(<<IntList(<<2, 3>>), IntList(<<2, 3>>)>>)

SuperDims == PyList(<<OperBranch, OperBranch>>)

MismatchDims == PyList(<<IntList(<<2>>), PyList(<<IntList(<<2>>), IntList(<<3>>)>>)>>)

OperKetDims == PyList(<<PyList(<<IntList(<<2>>), IntList(<<3>>)>>), IntList(<<1>>)>>)

OperBraDims == PyList(<<IntList(<<1>>), PyList(<<IntList(<<2>>), IntList(<<3>>)>>)>>)

DegenerateDims == PyList(<<IntList(<<1>>), IntList(<<1>>)>>)

ExampleDims ==
    {OperDims, KetDims, SuperDims, MismatchDims, OperKetDims, OperBraDims, DegenerateDims}

\* the argument of the deep_remove docstring: [[[[0, 1, 2]], [3, 4], [5], [6, 7]]]
DocTree ==
    PyList(<<PyList(<<PyList(<<IntList(<<0, 1, 2>>)>>), IntList(<<3, 4>>),
                      IntList(<<5>>), IntList(<<6, 7>>)>>)>>)

DocTargets == <<0, 5>>

\* the arguments the nested-list utilities are called on
TreeInputs == Trees \cup {DocTree}

\* the arguments the dims functions are called on
DimsInputs == DimsSet \cup ExampleDims

Inputs == TreeInputs \cup DimsInputs

\* one or two scalars to remove
TargetLists ==
    {<<v>> : v \in Scalars} \cup {<<v, w>> : v \in Scalars, w \in Scalars}
        \cup {DocTargets}

\* a branch np.prod and the classifier accept: a non-empty list of positive
\* ints, or a non-empty list of equally long non-empty lists of positive ints
IsFlatBranch(b) ==
    /\ IsList(b)
    /\ Len(b.items) >= 1
    /\ \A i \in 1..Len(b.items) : IsInt(b.items[i]) /\ b.items[i].v >= 1

IsNestedBranch(b) ==
    /\ IsList(b)
    /\ Len(b.items) >= 1
    /\ \A i \in 1..Len(b.items) :
          IsFlatBranch(b.items[i]) /\ Len(b.items[i].items) = Len(b.items[1].items)

WellFormedDims(d) ==
    /\ IsList(d)
    /\ Len(d.items) = 2
    /\ \A i \in 1..2 : IsFlatBranch(d.items[i]) \/ IsNestedBranch(d.items[i])

\* indices for a permutation of n entries: the bare indices at the borders of
\* [-n, n), and nested lists and tuples mixing index 0 with a border index
IndexLeaves(n) == {-(n + 1), -n, -1, 0, n - 1, n}

IndexStructs(n) ==
    {PyInt(i) : i \in IndexLeaves(n)}
        \cup {PyTuple(<<PyInt(0), PyList(<<PyInt(i)>>)>>) : i \in {-(n + 1), -1, n - 1, n}}
        \cup {PyList(<<PyInt(n), PyInt(0)>>)}

PyBool(b) == [k |-> "bool", b |-> b]

(***************************************************************************)
(* The state machine: a caller holds one argument and calls the functions  *)
(* of the module on it, in any order.                                      *)
(***************************************************************************)
NoCall == [op |-> "none", p |-> None]

Init ==
    /\ arg \in Inputs
    /\ heap = Store(<<>>, arg).h
    /\ root = Store(<<>>, arg).c
    /\ call = NoCall
    /\ result = None

\* the objects of the caller; what a call allocated is dropped with its frame
Keep(h) == SubSeq(h, 1, Len(heap))

TypeFromDims(enforce_square) ==
    /\ call = NoCall
    /\ arg \in DimsInputs
    /\ WellFormedDims(Value(heap, root))
    /\ call' = [op |-> "type_from_dims", p |-> PyBool(enforce_square)]
    /\ result' = PyStr(type_from_dims(Value(heap, root), enforce_square))
    /\ UNCHANGED <<heap, root, arg>>

Flatten ==
    /\ call = NoCall
    /\ arg \in TreeInputs
    /\ call' = [op |-> "flatten", p |-> None]
    /\ result' = flatten(Value(heap, root))
    /\ UNCHANGED <<heap, root, arg>>

EnumerateFlat ==
    /\ call = NoCall
    /\ arg \in TreeInputs
    /\ call' = [op |-> "enumerate_flat", p |-> None]
    /\ result' = enumerate_flat(Value(heap, root))
    /\ UNCHANGED <<heap, root, arg>>

\* unflatten(l, enumerate_flat(arg)) with l = flatten(arg), or l one short
Unflatten ==
    /\ call = NoCall
    /\ arg \in TreeInputs
    /\ LET full == flatten(Value(heap, root)).items
       IN  \E l \in {PyList(SubSeq(full, 1, n)) : n \in {Len(full) - 1, Len(full)} \cap Nat} :
            /\ call' = [op |-> "unflatten", p |-> l]
            /\ result' = unflatten(l, enumerate_flat(Value(heap, root)))
            /\ UNCHANGED <<heap, root, arg>>

DeepRemove ==
    /\ call = NoCall
    /\ arg \in TreeInputs
    /\ \E what \in TargetLists :
        LET out == deep_remove(heap, root, what)
        IN  /\ call' = [op |-> "deep_remove", p |-> IntList(what)]
            /\ result' = Value(out.h, out.c)
            /\ heap' = Keep(out.h)
            /\ UNCHANGED <<root, arg>>

DimsToTensorPerm ==
    /\ call = NoCall
    /\ arg \in DimsInputs
    /\ WellFormedDims(Value(heap, root))
    /\ LET out == dims_to_tensor_perm(heap, root)
       IN  /\ call' = [op |-> "dims_to_tensor_perm", p |-> None]
           /\ result' = out.r
           /\ heap' = Keep(out.h)
           /\ UNCHANGED <<root, arg>>

DimsToTensorShape ==
    /\ call = NoCall
    /\ arg \in DimsInputs
    /\ WellFormedDims(Value(heap, root))
    /\ LET out == dims_to_tensor_shape(heap, root)
       IN  /\ call' = [op |-> "dims_to_tensor_shape", p |-> None]
           /\ result' = out.r
           /\ heap' = Keep(out.h)
           /\ UNCHANGED <<root, arg>>

DimsIdxsToTensorIdxs ==
    /\ call = NoCall
    /\ arg \in DimsInputs
    /\ WellFormedDims(Value(heap, root))
    /\ \E indices \in IndexStructs(Len(flatten(Value(heap, root)).items)) :
          LET out == dims_idxs_to_tensor_idxs(heap, root, indices)
          IN  /\ call' = [op |-> "dims_idxs_to_tensor_idxs", p |-> indices]
              /\ result' = out.r
              /\ heap' = Keep(out.h)
              /\ UNCHANGED <<root, arg>>

\* the caller is done with the result and ready for its next call
Return ==
    /\ call # NoCall
    /\ call' = NoCall
    /\ result' = None
    /\ UNCHANGED <<heap, root, arg>>

Next ==
    \/ \E enforce_square \in BOOLEAN : TypeFromDims(enforce_square)
    \/ Flatten
    \/ EnumerateFlat
    \/ Unflatten
    \/ DeepRemove
    \/ DimsToTensorPerm
    \/ DimsToTensorShape
    \/ DimsIdxsToTensorIdxs
    \/ Return

Spec == Init /\ [][Next]_vars

(***************************************************************************)
(* Properties.                                                             *)
(***************************************************************************)
Called(op) == call.op = op

\* the kind the permutation builder works with
RelaxedKind == type_from_dims(arg, FALSE)

\* C1 as stated: for every nested structure t, a bare scalar included,
\* unflatten(flatten(t), enumerate_flat(t)) succeeds and equals t.
C1_RoundTripAnyStructure ==
    (Called("unflatten") /\ call.p = flatten(arg)) => result = arg

\* C1, amended: for every nested list t (any depth, empty sub-lists
\* included) unflatten(flatten(t), enumerate_flat(t)) equals t; for a bare
\* scalar t the label tree is a bare int and unflatten raises TypeError.
C1_RoundTripOfLists ==
    (Called("unflatten") /\ call.p = flatten(arg)) =>
        /\ IsList(arg) => result = arg
        /\ IsInt(arg) => result = Raise("TypeError")

\* a round trip of a list that holds an empty sub-list and a nested one
C1_Witness ==
    /\ Called("unflatten")
    /\ call.p = flatten(arg)
    /\ IsList(arg)
    /\ \E i, j \in 1..Len(arg.items) :
          /\ arg.items[i] = PyList(<<>>)
          /\ IsList(arg.items[j])
          /\ \E m \in 1..Len(arg.items[j].items) : IsList(arg.items[j].items[m])
    /\ result = arg

\* the first element of s equal to PyInt(x) removed, s itself if there is none
RemoveFirst(s, x) ==
    IF \E i \in 1..Len(s) : s[i] = PyInt(x)
    THEN LET i == CHOOSE j \in 1..Len(s) :
                      s[j] = PyInt(x) /\ \A m \in 1..(j - 1) : s[m] # PyInt(x)
         IN  SubSeq(s, 1, i - 1) \o SubSeq(s, i + 1, Len(s))
    ELSE s

RECURSIVE RemoveEach(_, _)
RemoveEach(s, what) ==
    IF what = <<>> THEN s ELSE RemoveEach(RemoveFirst(s, Head(what)), Tail(what))

RECURSIVE RemovedPerLevel(_, _)
\* removal at every level independently: every list of t, whatever encloses
\* it, loses the first occurrence of each target
RemovedPerLevel(t, what) ==
    IF ~IsList(t) THEN t
    ELSE PyList(RemoveEach([i \in 1..Len(t.items) |-> RemovedPerLevel(t.items[i], what)],
                           what))

TargetsOfCall == [i \in 1..Len(call.p.items) |-> call.p.items[i].v]

\* C8 as stated: deep_remove(l, *targets) removes, from each list at every
\* nesting level independently, the first occurrence of each target and
\* nothing else, whether or not the target occurs in an enclosing list.
C8_RemovesPerLevelIndependently ==
    Called("deep_remove") => result = RemovedPerLevel(arg, TargetsOfCall)

\* the argument as the caller built it, before any call
Pristine == Store(<<>>, arg)

\* C9: no call changes its argument: after any sequence of calls the
\* caller's argument is equal, at every nesting level, to what it was, and a
\* later call of deep_remove or dims_to_tensor_perm returns what the first
\* call on the argument returns.
C9_ArgumentNeverMutated ==
    /\ Value(heap, root) = arg
    /\ Called("deep_remove") =>
          LET first == deep_remove(Pristine.h, Pristine.c, TargetsOfCall)
          IN  result = Value(first.h, first.c)
    /\ Called("dims_to_tensor_perm") =>
          result = dims_to_tensor_perm(Pristine.h, Pristine.c).r

\* list.remove has run on the copy of the caller's outermost list, which
\* holds a target and a nested list, and the argument is as it was
C9_Witness ==
    /\ Called("deep_remove")
    /\ IsList(arg)
    /\ \E i, j \in 1..Len(arg.items) :
          arg.items[i] = PyInt(TargetsOfCall[1]) /\ IsList(arg.items[j])
    /\ result # arg
    /\ Value(heap, root) = arg

\* the labels of the leaves of branch i (from 0) of dims d, sub-list by sub-list
BranchLabels(d, i) == enumerate_flat(d).items[i + 1]

\* branch b is nested as exactly two sub-sequences
HasTwoSubSequences(b) == IsNestedBranch(b) /\ Len(b.items) = 2

\* the labels of a nested label branch with its sub-sequences in reversed order
Exchanged(b) == flatten(PyList(Reverse(b.items))).items

\* the flat permutation with branch i of d exchanged and the other left alone
ExchangedAt(d, i) ==
    IF i = 0
    THEN PyList(Exchanged(BranchLabels(d, 0)) \o flatten(BranchLabels(d, 1)).items)
    ELSE PyList(flatten(BranchLabels(d, 0)).items \o Exchanged(BranchLabels(d, 1)))

\* C2 as stated: for an operator-ket (row branch nested as two sub-sequences,
\* column of product 1) and for an operator-bra (the mirror case) the
\* permutation exchanges the two sub-sequences of the nested branch and is
\* not the identity.
C2_ExchangesNestedBranch ==
    Called("dims_to_tensor_perm") =>
        /\ (RelaxedKind = "operator-ket" /\ HasTwoSubSequences(arg.items[1])) =>
              (result = ExchangedAt(arg, 0) /\ result # flatten(enumerate_flat(arg)))
        /\ (RelaxedKind = "operator-bra" /\ HasTwoSubSequences(arg.items[2])) =>
              (result = ExchangedAt(arg, 1) /\ result # flatten(enumerate_flat(arg)))

\* r is a list of n entries holding each of 0..n-1 exactly once
IsPermutation(r, n) ==
    /\ IsList(r)
    /\ Len(r.items) = n
    /\ \A k \in 0..(n - 1) : Cardinality({i \in 1..n : r.items[i] = PyInt(k)}) = 1

\* C3: for every well-formed dims whose kind without square-enforcement is
\* not other, dims_to_tensor_perm returns a list of N = len(flatten(dims))
\* entries that holds each of 0..N-1 exactly once.
C3_PermIsBijection ==
    (Called("dims_to_tensor_perm") /\ RelaxedKind # "other") =>
        IsPermutation(result, Len(flatten(arg).items))

\* a permutation of a rectangular super dims that is not the identity
C3_Witness ==
    /\ Called("dims_to_tensor_perm")
    /\ RelaxedKind = "super"
    /\ arg.items[1] # arg.items[2]
    /\ result # flatten(enumerate_flat(arg))
    /\ IsPermutation(result, Len(flatten(arg).items))

\* the rule list of the classifier as the specification words it: the patterns
\* in priority order, on a flat or nested row and column
RuleList(d, enforce_square) ==
    LET row == d.items[1]
        col == d.items[2]
    IN  << [kind |-> "bra", matches |-> np_prod(row) = 1 /\ IsFlatBranch(col)],
           [kind |-> "ket", matches |-> np_prod(col) = 1 /\ IsFlatBranch(row)],
           [kind |-> "operator-bra", matches |-> np_prod(row) = 1 /\ IsNestedBranch(col)],
           [kind |-> "operator-ket", matches |-> np_prod(col) = 1 /\ IsNestedBranch(row)],
           [kind |-> "oper",
            matches |-> IsFlatBranch(row) /\ (row = col \/ ~enforce_square)],
           [kind |-> "super",
            matches |-> /\ IsNestedBranch(row)
                        /\ ((row = col /\ row.items[1] = col.items[1]) \/ ~enforce_square)] >>

FirstMatch(rules) ==
    IF \E i \in 1..Len(rules) : rules[i].matches
    THEN rules[CHOOSE i \in 1..Len(rules) :
                   rules[i].matches /\ \A j \in 1..(i - 1) : ~rules[j].matches].kind
    ELSE "other"

\* C4: type_from_dims returns the kind of the first rule that matches in the
\* order bra, ket, operator-bra, operator-ket, oper, super, and other when
\* none does; ([1],[1]) is a bra, and ([2],[[2],[3]]) under enforce_square
\* is other, returned and not raised.
C4_FirstMatchingRule ==
    Called("type_from_dims") =>
        /\ result = PyStr(FirstMatch(RuleList(arg, call.p.b)))
        /\ arg = DegenerateDims => result = PyStr("bra")
        /\ (arg = MismatchDims /\ call.p.b) => result = PyStr("other")

\* a dims matching the bra, ket and oper patterns at once, classified bra
C4_Witness ==
    /\ Called("type_from_dims")
    /\ arg = DegenerateDims
    /\ Cardinality({i \in 1..6 : RuleList(arg, call.p.b)[i].matches}) >= 3
    /\ result = PyStr("bra")

\* a super dims whose row and column branches each hold two sub-sequences
SuperOfTwoByTwo(d) ==
    /\ type_from_dims(d, FALSE) = "super"
    /\ HasTwoSubSequences(d.items[1])
    /\ HasTwoSubSequences(d.items[2])

\* the flat positions (from 0) of sub-sequence j (from 0) of branch i of d
PositionsOf(d, i, j) == IntsOf(BranchLabels(d, i).items[j + 1])

\* C5 as stated: for a super dims of two sub-sequences per branch, p[k] # k
\* exactly at the positions of the second sub-sequence of the row branch and
\* of the column branch, and p[k] = k at every position of a first one.
C5_OnlySecondSubBranchesMove ==
    (Called("dims_to_tensor_perm") /\ SuperOfTwoByTwo(arg)) =>
        \A k \in 0..(Len(result.items) - 1) :
            result.items[k + 1] # PyInt(k)
                <=> k \in PositionsOf(arg, 0, 1) \cup PositionsOf(arg, 1, 1)

\* C5, amended: for a super dims of two sub-sequences per branch the
\* permutation exchanges the two sub-sequences of the row branch and those
\* of the column branch, so p[k] # k at every flat position, of a first
\* sub-sequence as of a second.
C5_BothSubBranchesMove ==
    (Called("dims_to_tensor_perm") /\ SuperOfTwoByTwo(arg)) =>
        /\ result = PyList(Exchanged(BranchLabels(arg, 0)) \o Exchanged(BranchLabels(arg, 1)))
        /\ \A k \in 0..(Len(result.items) - 1) : result.items[k + 1] # PyInt(k)

\* the permutation of ([[2,3],[2,3]], [[2,3],[2,3]])
C5_Witness ==
    /\ Called("dims_to_tensor_perm")
    /\ arg = SuperDims
    /\ result = IntList(<<2, 3, 0, 1, 6, 7, 4, 5>>)

\* C6 as stated: for ([2,3],[2,3]) the permutation is [0, 1] and the shape
\* (2, 3); for ([4],[1]) the permutation is [0].
C6_IdentityCasesAsStated ==
    /\ (Called("dims_to_tensor_perm") /\ arg = OperDims) => result = IntList(<<0, 1>>)
    /\ (Called("dims_to_tensor_shape") /\ arg = OperDims) =>
          result = PyTuple(<<PyInt(2), PyInt(3)>>)
    /\ (Called("dims_to_tensor_perm") /\ arg = KetDims) => result = IntList(<<0>>)

\* C6, amended: the permutation and the shape have one entry per leaf of
\* both branches: for ([2,3],[2,3]) the permutation is [0, 1, 2, 3] and the
\* shape (2, 3, 2, 3); for ([4],[1]) the permutation is [0, 1].
C6_IdentityCases ==
    /\ (Called("dims_to_tensor_perm") /\ arg = OperDims) => result = IntList(<<0, 1, 2, 3>>)
    /\ (Called("dims_to_tensor_shape") /\ arg = OperDims) =>
          result = PyTuple(<<PyInt(2), PyInt(3), PyInt(2), PyInt(3)>>)
    /\ (Called("dims_to_tensor_perm") /\ arg = KetDims) => result = IntList(<<0, 1>>)

\* the shape of ([2,3],[2,3])
C6_Witness ==
    /\ Called("dims_to_tensor_shape")
    /\ arg = OperDims
    /\ result = PyTuple(<<PyInt(2), PyInt(3), PyInt(2), PyInt(3)>>)

\* the number of entries of the permutation of the argument
PermLen == Len(flatten(arg).items)

\* C7 as stated: dims_idxs_to_tensor_idxs fails with an out-of-range error
\* whenever a leaf of indices lies outside [0, len(perm)), every negative
\* leaf included, and succeeds only when all leaves lie inside it.
C7_RejectsOutsideZeroToLen ==
    (Called("dims_idxs_to_tensor_idxs") /\ RelaxedKind # "other") =>
        (result = Raise("IndexError")
            <=> \E i \in IntsOf(call.p) : ~(0 <= i /\ i < PermLen))

\* the entry of the permutation of the argument a leaf index in
\* [-len(perm), len(perm)) names
LeafImage(i) ==
    dims_to_tensor_perm(heap, root).r.items[(IF i < 0 THEN PermLen + i ELSE i) + 1]

RECURSIVE Projected(_)
\* the containers of t, kind by kind, with every leaf replaced by its image
Projected(t) ==
    IF IsInt(t) THEN LeafImage(t.v)
    ELSE [k |-> t.k, items |-> [i \in 1..Len(t.items) |-> Projected(t.items[i])]]

\* C7, amended: dims_idxs_to_tensor_idxs fails with an out-of-range error
\* exactly when a leaf of indices lies outside [-len(perm), len(perm)); a
\* leaf i with -len(perm) <= i < 0 is accepted and names entry len(perm) + i;
\* a call that succeeds returns the nesting of indices with each leaf i
\* replaced by perm[i].
C7_RejectsOutsideMinusLenToLen ==
    (Called("dims_idxs_to_tensor_idxs") /\ RelaxedKind # "other") =>
        /\ result = Raise("IndexError")
              <=> \E i \in IntsOf(call.p) : ~(-PermLen <= i /\ i < PermLen)
        /\ ~IsRaise(result) => result = Projected(call.p)

\* index -1 accepted in a nested structure of indices and mapped to the last
\* entry of a permutation that is not the identity
C7_Witness ==
    /\ Called("dims_idxs_to_tensor_idxs")
    /\ RelaxedKind = "super"
    /\ call.p = PyTuple(<<PyInt(0), PyList(<<PyInt(-1)>>)>>)
    /\ ~IsRaise(result)
    /\ result.items[2].items[1] # PyInt(PermLen - 1)

\* C10: on list-shaped dims type_from_dims without square-enforcement never
\* returns other, so dims_to_tensor_perm never raises NotImplementedError;
\* ([2],[[2],[3]]), other under enforce_square, is an oper for the builder
\* and gets the identity [0, 1, 2].
C10_OtherUnreachableFromBuilder ==
    /\ (Called("type_from_dims") /\ ~call.p.b) => result # PyStr("other")
    /\ Called("dims_to_tensor_perm") => result # Raise("NotImplementedError")
    /\ (Called("dims_to_tensor_perm") /\ arg = MismatchDims) =>
          result = IntList(<<0, 1, 2>>)
    /\ (Called("type_from_dims") /\ arg = MismatchDims /\ call.p.b) =>
          result = PyStr("other")

\* the permutation of the depth-mismatched ([2],[[2],[3]])
C10_Witness ==
    /\ Called("dims_to_tensor_perm")
    /\ arg = MismatchDims
    /\ type_from_dims(arg, TRUE) = "other"
    /\ result = IntList(<<0, 1, 2>>)

====
